---- MODULE Spec2Model ----
(***************************************************************************)
(* A model of NCom.py: the synthetic municipal-finance generator for the   *)
(* communes of Nouvelle-Caledonie (NouvelleCaledonieCommuneFinanceAnalyzer *)
(* and main).                                                              *)
(*                                                                         *)
(* Numbers.  Every cell of the table is a product of decimal literals, of  *)
(* linear terms 1 + rate * i and of noise factors.  The products do not    *)
(* fit the 32-bit integers of TLC as numerator/denominator pairs, so a     *)
(* value is kept exactly, in factored form: a sign and the exponents of    *)
(* its prime factors (negative exponents for the denominator).  Equal      *)
(* rationals have equal representations.  Floating-point rounding is not   *)
(* modelled.                                                               *)
(***************************************************************************)
EXTENDS Integers, Sequences, FiniteSets, TLC

VARIABLES
    pc,                   \* position of the driver (main, or the API driver)
    stdin,                \* the line the user will type at the prompt
    reads,                \* number of input() calls made so far
    commune_selectionnee, \* main: the selected locality name
    analyzer,             \* the analyzer object: commune, start_year, end_year, config
    df,                   \* the table: data dict while being built, then the DataFrame
    raw,                  \* history: the table as it was when the adjustment pass started
    returned,             \* history: the tables generate_financial_data returned
    rng_stream,           \* which noise stream np.random yields (0: noise disabled)
    rng_pos,              \* number of draws made from np.random so far
    trend_calls,          \* number of runs of _add_municipal_trends so far
    handed,               \* the consumers the returned table was handed to, in order
    printed,              \* the recommendation lines the report printed
    visit                 \* the adjustment pass in progress: rows done, blocks pending

vars == <<pc, stdin, reads, commune_selectionnee, analyzer, df, raw, returned,
          rng_stream, rng_pos, trend_calls, handed, printed, visit>>

None == "None"

(***************************************************************************)
(* Exact arithmetic in factored form.                                      *)
(***************************************************************************)
NoFactors == [p \in {} |-> 0]

RECURSIVE Factorize(_, _)
\* The prime factorisation of n >= 1 as a function prime -> exponent,
\* by trial division from p upward.
Factorize(n, p) ==
    IF n = 1 THEN NoFactors
    ELSE IF p * p > n THEN (n :> 1)
    ELSE IF n % p = 0
         THEN LET rest == Factorize(n \div p, p)
              IN  IF p \in DOMAIN rest
                  THEN [rest EXCEPT ![p] = @ + 1]
                  ELSE (p :> 1) @@ rest
         ELSE Factorize(n, p + 1)

Sign(n) == IF n > 0 THEN 1 ELSE IF n < 0 THEN -1 ELSE 0
Abs(n) == IF n < 0 THEN -n ELSE n

Zero == [s |-> 0, f |-> NoFactors]
One == [s |-> 1, f |-> NoFactors]

Exp(a, p) == IF p \in DOMAIN a.f THEN a.f[p] ELSE 0

\* The integer n as a value.
QInt(n) ==
    IF n = 0 THEN Zero
    ELSE LET g == Factorize(Abs(n), 2)
         IN  [s |-> Sign(n), f |-> [p \in DOMAIN g |-> g[p]]]

QMul(a, b) ==
    IF a.s = 0 \/ b.s = 0 THEN Zero
    ELSE LET K == {p \in DOMAIN a.f \cup DOMAIN b.f : Exp(a, p) + Exp(b, p) # 0}
         IN  [s |-> a.s * b.s, f |-> [p \in K |-> Exp(a, p) + Exp(b, p)]]

QInv(a) == [s |-> a.s, f |-> [p \in DOMAIN a.f |-> 0 - a.f[p]]]

\* a / b, b non-zero.
QDiv(a, b) == QMul(a, QInv(b))

\* The rational n / d, d > 0: a decimal literal of the source.
Q(n, d) == QDiv(QInt(n), QInt(d))

RECURSIVE Pow(_, _)
Pow(p, e) == IF e = 0 THEN 1 ELSE p * Pow(p, e - 1)

RECURSIVE ProdPow(_, _, _)
\* The product of p^(sgn * f[p]) over the primes p of P whose exponent has sign sgn.
ProdPow(f, P, sgn) ==
    IF P = {} THEN 1
    ELSE LET p == CHOOSE q \in P : TRUE
         IN  (IF sgn * f[p] > 0 THEN Pow(p, sgn * f[p]) ELSE 1)
             * ProdPow(f, P \ {p}, sgn)

Numerator(a) == a.s * ProdPow(a.f, DOMAIN a.f, 1)
Denominator(a) == ProdPow(a.f, DOMAIN a.f, -1)

\* a < b for b > 0 and any a, decided on the quotient a / b.
QLess(a, b) ==
    LET r == QDiv(a, b)
    IN  r.s <= 0 \/ Numerator(r) < Denominator(r)

\* 1 + rate * i for a rate given in thousandths (0.038 is 38).
Linear(milli, i) == Q(1000 + milli * i, 1000)

(***************************************************************************)
(* Bounds of the model.                                                    *)
(***************************************************************************)
\* Noise streams 1..MaxStream besides stream 0, the stream of a generator
\* whose standard deviations are forced to 0.
MaxStream == 2
\* Longest line typed at the selection prompt, in characters.
MaxInputLen == 2
\* Calls of generate_financial_data the API driver makes on one analyzer.
MaxRuns == 2

(***************************************************************************)
(* The analyzer: __init__ and _get_commune_config.                         *)
(***************************************************************************)
start_year == 2002
end_year == 2025

Config(population_base, budget_base, type, specialites) ==
    [population_base |-> population_base, budget_base |-> budget_base,
     type |-> type, specialites |-> specialites]

configs ==
    ("Nouméa" :> Config(100000, 180, "urbaine",
        <<"administration", "commerce", "tourisme", "port", "services">>))
    @@ ("Mont-Dore" :> Config(28000, 75, "periurbaine",
        <<"tourisme", "nature", "agriculture", "reservoir_eau">>))
    @@ ("Dumbéa" :> Config(35000, 85, "periurbaine",
        <<"zones_activites", "commerce", "services", "education">>))
    @@ ("Païta" :> Config(25000, 70, "periurbaine",
        <<"aeroport", "logistique", "commerce", "agriculture">>))
    @@ ("Koné" :> Config(8000, 50, "rurale",
        <<"administration_nord", "mine", "agriculture", "elevage">>))
    @@ ("Bourail" :> Config(5500, 45, "rurale",
        <<"agriculture", "elevage", "tourisme", "culture">>))
    @@ ("La Foa" :> Config(3500, 40, "rurale",
        <<"agriculture", "culture", "tourisme", "histoire">>))
    @@ ("Poindimié" :> Config(5000, 42, "cotiere",
        <<"agriculture", "peche", "tourisme", "culture_kanak">>))
    @@ ("Île des Pins" :> Config(2000, 35, "insulaire",
        <<"tourisme", "plages", "culture", "preservation">>))
    @@ ("default" :> Config(3000, 30, "rurale",
        <<"agriculture", "petit_commerce", "services_locaux">>))

\* A resolver whose fallback is the default locality of main, not the default
\* record.
_get_commune_config_wrong_fallback(commune) ==
    IF commune \in DOMAIN configs THEN configs[commune] ELSE configs["Nouméa"]

\* configs.get(self.commune, configs["default"])
_get_commune_config(commune) ==
    IF commune \in DOMAIN configs THEN configs[commune] ELSE configs["default"]

\* NouvelleCaledonieCommuneFinanceAnalyzer(commune_name)
__init__(commune_name) ==
    [commune |-> commune_name, start_year |-> start_year, end_year |-> end_year,
     config |-> _get_commune_config(commune_name)]

\* A match of the tag as a part of a specialty: "culture" is found in
\* "culture_kanak".
HasSpecialite_substring(config, tag) ==
    \E j \in 1..Len(config.specialites) :
        \/ config.specialites[j] = tag
        \/ tag = "culture" /\ config.specialites[j] = "culture_kanak"

\* tag in self.config["specialites"]
HasSpecialite(config, tag) ==
    \E j \in 1..Len(config.specialites) : config.specialites[j] = tag

(***************************************************************************)
(* pd.date_range(start, end, freq='Y') and np.random.normal(1, sd).        *)
(***************************************************************************)
Date(y, m, d) == <<y, m, d>>

DateLeq(a, b) ==
    \/ a[1] < b[1]
    \/ a[1] = b[1] /\ a[2] < b[2]
    \/ a[1] = b[1] /\ a[2] = b[2] /\ a[3] <= b[3]

RECURSIVE YearEnds(_, _, _)
\* The year-end dates y-12-31, y = from, from + 1, ..., that lie in [start, end].
YearEnds(from, start, end) ==
    IF ~DateLeq(Date(from, 12, 31), end) THEN << >>
    ELSE (IF DateLeq(start, Date(from, 12, 31)) THEN <<Date(from, 12, 31)>> ELSE << >>)
         \o YearEnds(from + 1, start, end)

\* A range closed on the left only: the end date itself is left out.
date_range_left_closed(start, end) ==
    YearEnds(start[1], start, Date(end[1], end[2], end[3] - 1))

\* freq='Y' is the year-end frequency: every 31 December from start to end.
date_range(start, end) == YearEnds(start[1], start, end)

\* The factors a noise stream cycles through: 0.8, 0.9, 1, 1.1, 1.2.
NoiseFactors == <<Q(4, 5), Q(9, 10), One, Q(11, 10), Q(6, 5)>>

\* The n-th draw of np.random.normal(1, sd) from the given stream; stream 0 is
\* the generator with every standard deviation forced to 0, which returns the
\* mean.  The draws of one stream differ from one position to the next.
normal(stream, n) ==
    IF stream = 0 THEN One ELSE NoiseFactors[((n + stream) % Len(NoiseFactors)) + 1]

(***************************************************************************)
(* The per-column generators.  Each takes the configuration and the dates  *)
(* and, when it draws noise, the stream and the number of draws made       *)
(* before it; row k of a column uses the year index i = k - 1 of           *)
(* enumerate(dates) and the k-th draw of the column.                       *)
(***************************************************************************)
\* A population growth rate with a branch of its own for coastal localities.
population_growth_rate_cotiere(type) ==
    IF type = "urbaine" THEN 18
    ELSE IF type = "periurbaine" THEN 22
    ELSE IF type = "insulaire" THEN 15
    ELSE IF type = "cotiere" THEN 14
    ELSE 12

\* growth_rate of _simulate_population, by self.config["type"].
population_growth_rate(type) ==
    IF type = "urbaine" THEN 18
    ELSE IF type = "periurbaine" THEN 22
    ELSE IF type = "insulaire" THEN 15
    ELSE 12

\* growth_rate of _simulate_total_revenue, by self.config["type"].
revenue_growth_rate(type) ==
    IF type = "urbaine" THEN 38
    ELSE IF type = "periurbaine" THEN 42
    ELSE IF type = "insulaire" THEN 35
    ELSE 32

Mul3(a, b, c) == QMul(QMul(a, b), c)
Mul4(a, b, c, d) == QMul(Mul3(a, b, c), d)
Mul5(a, b, c, d, e) == QMul(Mul4(a, b, c, d), e)

\* base_population * (1 + growth_rate * i), no noise.
_simulate_population(config, dates) ==
    LET base_population == QInt(config.population_base)
    IN  [k \in 1..Len(dates) |->
            LET i == k - 1
                year == dates[k][1]
                growth == Linear(population_growth_rate(config.type), i)
            IN  QMul(base_population, growth)]

\* A household count with a noise draw, like the financial series.
_simulate_households_noisy(config, dates) ==
    LET base_households == QDiv(QInt(config.population_base), Q(27, 10))
    IN  [k \in 1..Len(dates) |->
            LET i == k - 1
                growth == Linear(15, i)
                noise == normal(rng_stream, rng_pos + k)
            IN  Mul3(base_households, growth, noise)]

\* population_base / 2.7 * (1 + 0.015 * i), no noise.
_simulate_households(config, dates) ==
    LET base_households == QDiv(QInt(config.population_base), Q(27, 10))
    IN  [k \in 1..Len(dates) |->
            LET i == k - 1
                year == dates[k][1]
                growth == Linear(15, i)
            IN  QMul(base_households, growth)]

\* Total revenue with the year index taken from the running count of draws,
\* a state shared between the calls, instead of enumerate(dates).
_simulate_total_revenue_running(config, dates, stream, pos) ==
    LET base_revenue == QInt(config.budget_base)
    IN  [k \in 1..Len(dates) |->
            LET i == pos + k - 1
                growth == Linear(revenue_growth_rate(config.type), i)
                noise == normal(stream, pos + k)
            IN  Mul3(base_revenue, growth, noise)]

\* budget_base * (1 + growth_rate * i) * noise.
_simulate_total_revenue(config, dates, stream, pos) ==
    LET base_revenue == QInt(config.budget_base)
    IN  [k \in 1..Len(dates) |->
            LET i == k - 1
                year == dates[k][1]
                growth == Linear(revenue_growth_rate(config.type), i)
                noise == normal(stream, pos + k)
            IN  Mul3(base_revenue, growth, noise)]

\* budget_base * 0.45 * (1 + 0.028 * i) * noise.
_simulate_tax_revenue(config, dates, stream, pos) ==
    LET base_tax == QMul(QInt(config.budget_base), Q(45, 100))
    IN  [k \in 1..Len(dates) |->
            LET i == k - 1
                year == dates[k][1]
                growth == Linear(28, i)
                noise == normal(stream, pos + k)
            IN  Mul3(base_tax, growth, noise)]

\* budget_base * 0.25, rising by 0.01 a year from 2010, * noise.
_simulate_state_grants(config, dates, stream, pos) ==
    LET base_grants == QMul(QInt(config.budget_base), Q(25, 100))
    IN  [k \in 1..Len(dates) |->
            LET i == k - 1
                year == dates[k][1]
                increase == IF year >= 2010 THEN Linear(10, year - 2010) ELSE One
                noise == normal(stream, pos + k)
            IN  Mul3(base_grants, increase, noise)]

\* budget_base * 0.15, rising by 0.012 a year from 2000, * noise.
_simulate_territorial_grants(config, dates, stream, pos) ==
    LET base_grants == QMul(QInt(config.budget_base), Q(15, 100))
    IN  [k \in 1..Len(dates) |->
            LET i == k - 1
                year == dates[k][1]
                increase == IF year >= 2000 THEN Linear(12, year - 2000) ELSE One
                noise == normal(stream, pos + k)
            IN  Mul3(base_grants, increase, noise)]

\* budget_base * 0.15 * (1 + 0.026 * i) * noise.
_simulate_other_revenue(config, dates, stream, pos) ==
    LET base_other == QMul(QInt(config.budget_base), Q(15, 100))
    IN  [k \in 1..Len(dates) |->
            LET i == k - 1
                year == dates[k][1]
                growth == Linear(26, i)
                noise == normal(stream, pos + k)
            IN  Mul3(base_other, growth, noise)]

\* budget_base * 0.95 * (1 + 0.032 * i) * noise.
_simulate_total_expenses(config, dates, stream, pos) ==
    LET base_expenses == QMul(QInt(config.budget_base), Q(95, 100))
    IN  [k \in 1..Len(dates) |->
            LET i == k - 1
                year == dates[k][1]
                growth == Linear(32, i)
                noise == normal(stream, pos + k)
            IN  Mul3(base_expenses, growth, noise)]

\* budget_base * 0.60 * (1 + 0.026 * i) * noise.
_simulate_operating_expenses(config, dates, stream, pos) ==
    LET base_operating == QMul(QInt(config.budget_base), Q(60, 100))
    IN  [k \in 1..Len(dates) |->
            LET i == k - 1
                year == dates[k][1]
                growth == Linear(26, i)
                noise == normal(stream, pos + k)
            IN  Mul3(base_operating, growth, noise)]

\* budget_base * 0.35 * (1 + 0.024 * i) * multiplier(year) * noise.
_simulate_investment_expenses(config, dates, stream, pos) ==
    LET base_investment == QMul(QInt(config.budget_base), Q(35, 100))
    IN  [k \in 1..Len(dates) |->
            LET i == k - 1
                year == dates[k][1]
                multiplier == IF year \in {2006, 2012, 2018, 2023} THEN Q(170, 100)
                              ELSE IF year \in {2008, 2014, 2020} THEN Q(78, 100) ELSE One
                growth == Linear(24, i)
                noise == normal(stream, pos + k)
            IN  Mul4(base_investment, growth, multiplier, noise)]

\* A debt charge that rises by 0.009 for every year of the table.
_simulate_debt_charges_by_index(config, dates, stream, pos) ==
    LET base_debt_charge == QMul(QInt(config.budget_base), Q(5, 100))
    IN  [k \in 1..Len(dates) |->
            LET i == k - 1
                increase == Linear(9, i)
                noise == normal(stream, pos + k)
            IN  Mul3(base_debt_charge, increase, noise)]

\* budget_base * 0.05, rising by 0.009 a year from 2005, * noise.
_simulate_debt_charges(config, dates, stream, pos) ==
    LET base_debt_charge == QMul(QInt(config.budget_base), Q(5, 100))
    IN  [k \in 1..Len(dates) |->
            LET i == k - 1
                year == dates[k][1]
                increase == IF year >= 2005 THEN Linear(9, year - 2005) ELSE One
                noise == normal(stream, pos + k)
            IN  Mul3(base_debt_charge, increase, noise)]

\* budget_base * 0.40 * (1 + 0.027 * i) * noise.
_simulate_staff_costs(config, dates, stream, pos) ==
    LET base_staff == QMul(QInt(config.budget_base), Q(40, 100))
    IN  [k \in 1..Len(dates) |->
            LET i == k - 1
                year == dates[k][1]
                growth == Linear(27, i)
                noise == normal(stream, pos + k)
            IN  Mul3(base_staff, growth, noise)]

\* budget_base * 0.05, rising by 0.01 a year from 2010, * noise.
_simulate_gross_savings(config, dates, stream, pos) ==
    LET base_saving == QMul(QInt(config.budget_base), Q(5, 100))
    IN  [k \in 1..Len(dates) |->
            LET i == k - 1
                year == dates[k][1]
                improvement == IF year >= 2010 THEN Linear(10, year - 2010) ELSE One
                noise == normal(stream, pos + k)
            IN  Mul3(base_saving, improvement, noise)]

\* budget_base * 0.65 * change(year) * noise: no growth term.
_simulate_total_debt(config, dates, stream, pos) ==
    LET base_debt == QMul(QInt(config.budget_base), Q(65, 100))
    IN  [k \in 1..Len(dates) |->
            LET i == k - 1
                year == dates[k][1]
                change == IF year \in {2006, 2012, 2018, 2023} THEN Q(125, 100)
                          ELSE IF year \in {2009, 2015, 2021} THEN Q(90, 100) ELSE One
                noise == normal(stream, pos + k)
            IN  Mul3(base_debt, change, noise)]

\* A debt ratio that falls by 0.12 a year from 2010.
_simulate_debt_ratio_steep(config, dates, stream, pos) ==
    LET base_ratio == Q(60, 100)
    IN  [k \in 1..Len(dates) |->
            LET i == k - 1
                year == dates[k][1]
                improvement == IF year >= 2010 THEN Linear(-120, year - 2010) ELSE One
                noise == normal(stream, pos + k)
            IN  Mul3(base_ratio, improvement, noise)]

\* 0.60, falling by 0.012 a year from 2010, * noise.
_simulate_debt_ratio(config, dates, stream, pos) ==
    LET base_ratio == Q(60, 100)
    IN  [k \in 1..Len(dates) |->
            LET i == k - 1
                year == dates[k][1]
                improvement == IF year >= 2010 THEN Linear(-12, year - 2010) ELSE One
                noise == normal(stream, pos + k)
            IN  Mul3(base_ratio, improvement, noise)]

\* 0.95, rising by 0.004 a year from 2010, * noise.
_simulate_tax_rate(config, dates, stream, pos) ==
    LET base_rate == Q(95, 100)
    IN  [k \in 1..Len(dates) |->
            LET i == k - 1
                year == dates[k][1]
                increase == IF year >= 2010 THEN Linear(4, year - 2010) ELSE One
                noise == normal(stream, pos + k)
            IN  Mul3(base_rate, increase, noise)]

\* budget_base * 0.05, cycle years x1.9, specialty 'agriculture' 1.4 else 0.8.
_simulate_agriculture_investment(config, dates, stream, pos) ==
    LET base_investment == QMul(QInt(config.budget_base), Q(5, 100))
        multiplier == IF HasSpecialite(config, "agriculture") THEN Q(14, 10) ELSE Q(8, 10)
    IN  [k \in 1..Len(dates) |->
            LET i == k - 1
                year == dates[k][1]
                year_multiplier == IF year \in {2005, 2010, 2015, 2020} THEN Q(19, 10) ELSE One
                growth == Linear(30, i)
                noise == normal(stream, pos + k)
            IN  Mul5(base_investment, growth, year_multiplier, multiplier, noise)]

\* budget_base * 0.06, cycle years x1.9, specialty 'tourisme' 1.7 else 0.7.
_simulate_tourism_investment(config, dates, stream, pos) ==
    LET base_investment == QMul(QInt(config.budget_base), Q(6, 100))
        multiplier == IF HasSpecialite(config, "tourisme") THEN Q(17, 10) ELSE Q(7, 10)
    IN  [k \in 1..Len(dates) |->
            LET i == k - 1
                year == dates[k][1]
                year_multiplier == IF year \in {2007, 2013, 2019, 2024} THEN Q(19, 10) ELSE One
                growth == Linear(35, i)
                noise == normal(stream, pos + k)
            IN  Mul5(base_investment, growth, year_multiplier, multiplier, noise)]

\* Transport investment with the two specialty multipliers exchanged.
_simulate_transport_investment_swapped(config, dates, stream, pos) ==
    LET base_investment == QMul(QInt(config.budget_base), Q(4, 100))
        multiplier == IF HasSpecialite(config, "transport") THEN Q(9, 10) ELSE Q(15, 10)
    IN  [k \in 1..Len(dates) |->
            LET i == k - 1
                year == dates[k][1]
                year_multiplier == IF year \in {2006, 2012, 2018, 2023} THEN Q(18, 10) ELSE One
                growth == Linear(27, i)
                noise == normal(stream, pos + k)
            IN  Mul5(base_investment, growth, year_multiplier, multiplier, noise)]

\* budget_base * 0.04, cycle years x1.8, specialty 'transport' 1.5 else 0.9.
_simulate_transport_investment(config, dates, stream, pos) ==
    LET base_investment == QMul(QInt(config.budget_base), Q(4, 100))
        multiplier == IF HasSpecialite(config, "transport") THEN Q(15, 10) ELSE Q(9, 10)
    IN  [k \in 1..Len(dates) |->
            LET i == k - 1
                year == dates[k][1]
                year_multiplier == IF year \in {2006, 2012, 2018, 2023} THEN Q(18, 10) ELSE One
                growth == Linear(27, i)
                noise == normal(stream, pos + k)
            IN  Mul5(base_investment, growth, year_multiplier, multiplier, noise)]

\* budget_base * 0.05, cycle years x1.7, specialty 'education' 1.4 else 0.9.
_simulate_education_investment(config, dates, stream, pos) ==
    LET base_investment == QMul(QInt(config.budget_base), Q(5, 100))
        multiplier == IF HasSpecialite(config, "education") THEN Q(14, 10) ELSE Q(9, 10)
    IN  [k \in 1..Len(dates) |->
            LET i == k - 1
                year == dates[k][1]
                year_multiplier == IF year \in {2008, 2014, 2020} THEN Q(17, 10) ELSE One
                growth == Linear(28, i)
                noise == normal(stream, pos + k)
            IN  Mul5(base_investment, growth, year_multiplier, multiplier, noise)]

\* budget_base * 0.04, cycle years x2.0, specialty 'environnement' 1.5 else 0.8.
_simulate_environment_investment(config, dates, stream, pos) ==
    LET base_investment == QMul(QInt(config.budget_base), Q(4, 100))
        multiplier == IF HasSpecialite(config, "environnement") THEN Q(15, 10) ELSE Q(8, 10)
    IN  [k \in 1..Len(dates) |->
            LET i == k - 1
                year == dates[k][1]
                year_multiplier == IF year \in {2009, 2015, 2021} THEN Q(20, 10) ELSE One
                growth == Linear(32, i)
                noise == normal(stream, pos + k)
            IN  Mul5(base_investment, growth, year_multiplier, multiplier, noise)]

\* budget_base * 0.03, cycle years x1.8, specialty 'culture' 1.6 else 0.7.
_simulate_culture_investment(config, dates, stream, pos) ==
    LET base_investment == QMul(QInt(config.budget_base), Q(3, 100))
        multiplier == IF HasSpecialite(config, "culture") THEN Q(16, 10) ELSE Q(7, 10)
    IN  [k \in 1..Len(dates) |->
            LET i == k - 1
                year == dates[k][1]
                year_multiplier == IF year \in {2010, 2016, 2022} THEN Q(18, 10) ELSE One
                growth == Linear(26, i)
                noise == normal(stream, pos + k)
            IN  Mul5(base_investment, growth, year_multiplier, multiplier, noise)]

\* Mining investment that tests for the tag 'mining', which no record carries.
_simulate_mining_investment_tag_mining(config, dates, stream, pos) ==
    LET base_investment == QMul(QInt(config.budget_base), Q(4, 100))
        multiplier == IF HasSpecialite(config, "mining") THEN Q(18, 10) ELSE Q(6, 10)
    IN  [k \in 1..Len(dates) |->
            LET i == k - 1
                year == dates[k][1]
                year_multiplier == IF year \in {2007, 2013, 2019, 2024} THEN Q(21, 10) ELSE One
                growth == Linear(38, i)
                noise == normal(stream, pos + k)
            IN  Mul5(base_investment, growth, year_multiplier, multiplier, noise)]

\* budget_base * 0.04, cycle years x2.1, specialty 'mine' 1.8 else 0.6.
_simulate_mining_investment(config, dates, stream, pos) ==
    LET base_investment == QMul(QInt(config.budget_base), Q(4, 100))
        multiplier == IF HasSpecialite(config, "mine") THEN Q(18, 10) ELSE Q(6, 10)
    IN  [k \in 1..Len(dates) |->
            LET i == k - 1
                year == dates[k][1]
                year_multiplier == IF year \in {2007, 2013, 2019, 2024} THEN Q(21, 10) ELSE One
                growth == Linear(38, i)
                noise == normal(stream, pos + k)
            IN  Mul5(base_investment, growth, year_multiplier, multiplier, noise)]

(***************************************************************************)
(* The table.  A table is the ordered list of its column names and the     *)
(* values of each column, one per row.                                     *)
(***************************************************************************)
EmptyTable == [cols |-> << >>, val |-> [c \in {} |-> << >>]]

\* data[name] = values
WithColumn(t, name, values) ==
    [cols |-> Append(t.cols, name), val |-> (name :> values) @@ t.val]

Columns(t) == {t.cols[j] : j \in 1..Len(t.cols)}

\* Number of rows of a table that has its Annee column.
NumRows(t) == Len(t.val["Annee"])

\* The 23 value columns, in the order generate_financial_data fills them.
ColumnOrder ==
    <<"Population", "Menages",
      "Recettes_Totales", "Impots_Locaux", "Dotations_Etat",
      "Dotations_Territoriales", "Autres_Recettes",
      "Depenses_Totales", "Fonctionnement", "Investissement", "Charge_Dette",
      "Personnel",
      "Epargne_Brute", "Dette_Totale", "Taux_Endettement", "Taux_Fiscalite",
      "Investissement_Agriculture", "Investissement_Tourisme",
      "Investissement_Transport", "Investissement_Education",
      "Investissement_Environnement", "Investissement_Culture",
      "Investissement_Mine">>

\* The generators that call np.random.normal, once per row.
DrawsNoise(col) == col \notin {"Population", "Menages"}

\* data[col] = self._simulate_...(dates)
simulate(col, config, dates, stream, pos) ==
    CASE col = "Population" -> _simulate_population(config, dates)
      [] col = "Menages" -> _simulate_households(config, dates)
      [] col = "Recettes_Totales" -> _simulate_total_revenue(config, dates, stream, pos)
      [] col = "Impots_Locaux" -> _simulate_tax_revenue(config, dates, stream, pos)
      [] col = "Dotations_Etat" -> _simulate_state_grants(config, dates, stream, pos)
      [] col = "Dotations_Territoriales" ->
             _simulate_territorial_grants(config, dates, stream, pos)
      [] col = "Autres_Recettes" -> _simulate_other_revenue(config, dates, stream, pos)
      [] col = "Depenses_Totales" -> _simulate_total_expenses(config, dates, stream, pos)
      [] col = "Fonctionnement" ->
             _simulate_operating_expenses(config, dates, stream, pos)
      [] col = "Investissement" ->
             _simulate_investment_expenses(config, dates, stream, pos)
      [] col = "Charge_Dette" -> _simulate_debt_charges(config, dates, stream, pos)
      [] col = "Personnel" -> _simulate_staff_costs(config, dates, stream, pos)
      [] col = "Epargne_Brute" -> _simulate_gross_savings(config, dates, stream, pos)
      [] col = "Dette_Totale" -> _simulate_total_debt(config, dates, stream, pos)
      [] col = "Taux_Endettement" -> _simulate_debt_ratio(config, dates, stream, pos)
      [] col = "Taux_Fiscalite" -> _simulate_tax_rate(config, dates, stream, pos)
      [] col = "Investissement_Agriculture" ->
             _simulate_agriculture_investment(config, dates, stream, pos)
      [] col = "Investissement_Tourisme" ->
             _simulate_tourism_investment(config, dates, stream, pos)
      [] col = "Investissement_Transport" ->
             _simulate_transport_investment(config, dates, stream, pos)
      [] col = "Investissement_Education" ->
             _simulate_education_investment(config, dates, stream, pos)
      [] col = "Investissement_Environnement" ->
             _simulate_environment_investment(config, dates, stream, pos)
      [] col = "Investissement_Culture" ->
             _simulate_culture_investment(config, dates, stream, pos)
      [] col = "Investissement_Mine" ->
             _simulate_mining_investment(config, dates, stream, pos)

\* The table with its next column filled: the next line of generate_financial_data.
simulate_next(t, config, dates, stream, pos) ==
    LET col == ColumnOrder[Len(t.cols)]
    IN  WithColumn(t, col, simulate(col, config, dates, stream, pos))

\* The number of draws made once the next column of t is filled.
draws_after(t, dates, pos) ==
    IF DrawsNoise(ColumnOrder[Len(t.cols)]) THEN pos + Len(dates) ELSE pos

\* dates = pd.date_range(start=f'{start_year}-01-01', end=f'{end_year}-12-31', freq='Y')
dates_of(self) == date_range(Date(self.start_year, 1, 1), Date(self.end_year, 12, 31))

\* data = {'Annee': [date.year for date in dates]}
annee_column(dates) == [k \in 1..Len(dates) |-> dates[k][1]]

(***************************************************************************)
(* _add_municipal_trends: for each row in turn, the gated blocks in the    *)
(* order of the source.  v is the val of the table, i the row.             *)
(***************************************************************************)
\* df.loc[i, col] *= m
loc_mul(v, i, col, m) == [v EXCEPT ![col][i] = QMul(@, m)]

\* An initial-development block that runs through 2006.
block_initial_through_2006(v, i, year) ==
    IF 2002 <= year /\ year <= 2006
    THEN loc_mul(loc_mul(v, i, "Investissement_Agriculture", Q(15, 10)),
                 i, "Investissement_Tourisme", Q(14, 10))
    ELSE v

\* if 2002 <= year <= 2005
block_initial(v, i, year) ==
    IF 2002 <= year /\ year <= 2005
    THEN loc_mul(loc_mul(v, i, "Investissement_Agriculture", Q(15, 10)),
                 i, "Investissement_Tourisme", Q(14, 10))
    ELSE v

\* A crisis gate that runs through 2010.
crisis_gate_through_2010(year) == 2008 <= year /\ year <= 2010

\* 2008 <= year <= 2009, the condition of the if that the elif follows.
crisis_gate(year) == 2008 <= year /\ year <= 2009

\* if 2008 <= year <= 2009
block_crisis(v, i, year) ==
    IF crisis_gate(year)
    THEN loc_mul(loc_mul(loc_mul(v, i, "Recettes_Totales", Q(94, 100)),
                         i, "Investissement", Q(85, 100)),
                 i, "Autres_Recettes", Q(88, 100))
    ELSE v

\* elif 2010 <= year <= 2014: reached only when the if above was not taken.
block_boom(v, i, year) ==
    IF ~crisis_gate(year) /\ 2010 <= year /\ year <= 2014
    THEN loc_mul(loc_mul(v, i, "Investissement_Mine", Q(15, 10)),
                 i, "Dotations_Territoriales", Q(13, 10))
    ELSE v

\* if 2008 <= year <= 2009 ... elif 2010 <= year <= 2014
block_crisis_boom(v, i, year) == block_boom(block_crisis(v, i, year), i, year)

\* State grants that follow the territorial grants of the row.
block_institutional_from_territorial(v, i, year) ==
    IF year >= 2010
    THEN [v EXCEPT !["Dotations_Etat"][i] =
              QMul(v["Dotations_Territoriales"][i], Linear(15, year - 2010))]
    ELSE v

\* if year >= 2010: institutional_growth
block_institutional(v, i, year) ==
    IF year >= 2010
    THEN loc_mul(v, i, "Dotations_Etat", Linear(15, year - 2010))
    ELSE v

\* if 2020 <= year <= 2021: if year == 2020
block_covid(v, i, year) ==
    IF 2020 <= year /\ year <= 2021
    THEN IF year = 2020
         THEN loc_mul(loc_mul(v, i, "Autres_Recettes", Q(75, 100)),
                      i, "Investissement_Tourisme", Q(88, 100))
         ELSE v
    ELSE v

\* if year >= 2010: environment_growth
block_environment(v, i, year) ==
    IF year >= 2010
    THEN loc_mul(v, i, "Investissement_Environnement", Linear(34, year - 2010))
    ELSE v

\* if year >= 2022
block_relance(v, i, year) ==
    IF year >= 2022
    THEN loc_mul(loc_mul(loc_mul(v, i, "Investissement", Q(115, 100)),
                         i, "Investissement_Tourisme", Q(12, 10)),
                 i, "Investissement_Mine", Q(118, 100))
    ELSE v

\* The body of the loop for row i.
trend_row(v, i) ==
    LET year == v["Annee"][i]
    IN  block_relance(
          block_environment(
            block_covid(
              block_institutional(
                block_crisis_boom(
                  block_initial(v, i, year), i, year), i, year), i, year), i, year),
          i, year)

RECURSIVE trend_rows(_, _)
\* for i, row in df.iterrows(), from row i on.
trend_rows(v, i) ==
    IF i > Len(v["Annee"]) THEN v ELSE trend_rows(trend_row(v, i), i + 1)

\* A pass that multiplies the row copies iterrows yields, not the cells of the
\* table: the table is left as it was.
_add_municipal_trends_on_copy(t) == t

\* self._add_municipal_trends(df): the table is changed in place.
_add_municipal_trends(t) == [t EXCEPT !.val = trend_rows(t.val, 1)]

(***************************************************************************)
(* main: the selection prompt.  A typed line is a sequence of characters.  *)
(***************************************************************************)
\* The list with Koné spelt without its accent.
communes_unaccented ==
    <<"Nouméa", "Mont-Dore", "Dumbéa", "Païta", "Bouloupari",
      "La Foa", "Sarraméa", "Farino", "Moindou", "Bourail",
      "Poya", "Pouembout", "Kone", "Voh", "Kaala-Gomen",
      "Koumac", "Poum", "Belep", "Ouégoa", "Pouébo",
      "Hienghène", "Touho", "Poindimié", "Ponérihouen", "Houaïlou",
      "Kouaoua", "Canala", "Thio", "Yaté", "Île des Pins",
      "Maré", "Lifou", "Ouvéa">>

\* communes = [...], the localities the prompt lists.
communes ==
    <<"Nouméa", "Mont-Dore", "Dumbéa", "Païta", "Bouloupari",
      "La Foa", "Sarraméa", "Farino", "Moindou", "Bourail",
      "Poya", "Pouembout", "Koné", "Voh", "Kaala-Gomen",
      "Koumac", "Poum", "Belep", "Ouégoa", "Pouébo",
      "Hienghène", "Touho", "Poindimié", "Ponérihouen", "Houaïlou",
      "Kouaoua", "Canala", "Thio", "Yaté", "Île des Pins",
      "Maré", "Lifou", "Ouvéa">>

DigitValue ==
    ("0" :> 0) @@ ("1" :> 1) @@ ("2" :> 2) @@ ("3" :> 3) @@ ("4" :> 4)
    @@ ("5" :> 5) @@ ("6" :> 6) @@ ("7" :> 7) @@ ("8" :> 8) @@ ("9" :> 9)

IsDigit(c) == c \in DOMAIN DigitValue

RECURSIVE lstrip(_)
lstrip(s) == IF s # << >> /\ Head(s) = " " THEN lstrip(Tail(s)) ELSE s

RECURSIVE rstrip(_)
rstrip(s) ==
    IF s # << >> /\ s[Len(s)] = " " THEN rstrip(SubSeq(s, 1, Len(s) - 1)) ELSE s

RECURSIVE DigitsValue(_, _)
\* The decimal value of a well-formed digit string, underscores skipped.
DigitsValue(s, acc) ==
    IF s = << >> THEN acc
    ELSE IF Head(s) = "_" THEN DigitsValue(Tail(s), acc)
    ELSE DigitsValue(Tail(s), 10 * acc + DigitValue[Head(s)])

\* int(line): surrounding blanks stripped, an optional sign, then decimal digits
\* with single underscores allowed between digits; anything else is a ValueError.
int(line) ==
    LET t == rstrip(lstrip(line))
        signed == t # << >> /\ Head(t) \in {"+", "-"}
        body == IF signed THEN Tail(t) ELSE t
        wellformed ==
            /\ body # << >>
            /\ \A j \in 1..Len(body) : IsDigit(body[j]) \/ body[j] = "_"
            /\ IsDigit(body[1]) /\ IsDigit(body[Len(body)])
            /\ \A j \in 1..(Len(body) - 1) : ~(body[j] = "_" /\ body[j + 1] = "_")
        magnitude == DigitsValue(body, 0)
    IN  IF wellformed
        THEN [ok |-> TRUE,
              val |-> IF signed /\ Head(t) = "-" THEN 0 - magnitude ELSE magnitude]
        ELSE [ok |-> FALSE, val |-> 0]

\* The selection without the test choix < 1: communes[choix-1] then counts a
\* choice of 0 or below from the end of the list, and only an index before
\* its start is an IndexError.
select_commune_no_lower_bound(line) ==
    LET choix == int(line)
    IN  IF ~choix.ok THEN "Nouméa"
        ELSE IF choix.val > Len(communes) THEN "Nouméa"
        ELSE IF choix.val >= 1 THEN communes[choix.val]
        ELSE IF Len(communes) + choix.val >= 1 THEN communes[Len(communes) + choix.val]
        ELSE "Nouméa"

\* The try block of main: the name chosen for a typed line.
select_commune(line) ==
    LET choix == int(line)
    IN  IF ~choix.ok THEN "Nouméa"
        ELSE IF choix.val < 1 \/ choix.val > Len(communes) THEN "Nouméa"
        ELSE communes[choix.val]

\* The characters a typed line is made of, and the lines typed.
Chars ==
    {"0", "1", "2", "3", "4", "5", "6", "7", "8", "9", "-", "+", " ", "_", "x"}
Inputs == UNION {[1..n -> Chars] : n \in 0..MaxInputLen}

(***************************************************************************)
(* The columns each consumer of the table reads.                           *)
(***************************************************************************)
preview_columns ==
    {"Annee", "Population", "Recettes_Totales", "Depenses_Totales", "Dette_Totale"}

_plot_revenue_expenses == {"Annee", "Recettes_Totales", "Depenses_Totales"}

_plot_revenue_structure ==
    {"Annee", "Impots_Locaux", "Dotations_Etat", "Dotations_Territoriales",
     "Autres_Recettes"}

_plot_expenses_structure ==
    {"Annee", "Fonctionnement", "Investissement", "Charge_Dette", "Personnel"}

_plot_investments ==
    {"Annee", "Investissement_Agriculture", "Investissement_Tourisme",
     "Investissement_Transport", "Investissement_Education",
     "Investissement_Environnement", "Investissement_Mine"}

_plot_debt == {"Annee", "Dette_Totale", "Taux_Endettement"}

\* The indicator chart reading a column under a name the generator never uses.
_plot_performance_indicators_misnamed == {"Annee", "Epargne_Nette", "Taux_Fiscalite"}

_plot_performance_indicators == {"Annee", "Epargne_Brute", "Taux_Fiscalite"}

_plot_demography == {"Annee", "Population", "Menages"}

_plot_sectorial_investments ==
    {"Annee", "Investissement_Agriculture", "Investissement_Tourisme",
     "Investissement_Transport", "Investissement_Education",
     "Investissement_Environnement", "Investissement_Mine"}

\* The eight charts of create_financial_analysis.
chart_columns ==
    _plot_revenue_expenses \cup _plot_revenue_structure
    \cup _plot_expenses_structure \cup _plot_investments \cup _plot_debt
    \cup _plot_performance_indicators \cup _plot_demography
    \cup _plot_sectorial_investments

_generate_financial_insights ==
    {"Recettes_Totales", "Depenses_Totales", "Epargne_Brute", "Dette_Totale",
     "Population", "Impots_Locaux", "Dotations_Etat", "Dotations_Territoriales",
     "Investissement", "Taux_Endettement", "Taux_Fiscalite"}

(***************************************************************************)
(* The report, section 7: the recommendation lines it prints.              *)
(***************************************************************************)
mine_lines ==
    <<"Diversifier l'économie minière et développer la transformation locale",
      "Investir dans l'innovation minière durable">>

tourisme_lines ==
    <<"Développer le tourisme haut de gamme et l'écotourisme",
      "Valoriser les atouts naturels (lagons, biodiversité)">>

agriculture_lines ==
    <<"Moderniser l'agriculture et développer les filières locales",
      "Valoriser les produits du terroir">>

common_lines ==
    <<"Améliorer les infrastructures de transport et de mobilité",
      "Préserver l'environnement et la biodiversité exceptionnelle",
      "Renforcer les services publics (santé, éducation)",
      "Développer le numérique et les services innovants">>

\* A report whose sector lines are chosen by the category of the locality.
recommendations_by_type(config) ==
    (IF config.type \in {"rurale", "cotiere"} THEN mine_lines ELSE << >>)
    \o (IF config.type \in {"urbaine", "insulaire"} THEN tourisme_lines ELSE << >>)
    \o (IF config.type \in {"rurale", "periurbaine"} THEN agriculture_lines
        ELSE << >>)
    \o common_lines

\* The three `if "..." in self.config["specialites"]` and the four prints
\* that follow them.
recommendations(config) ==
    (IF HasSpecialite(config, "mine") THEN mine_lines ELSE << >>)
    \o (IF HasSpecialite(config, "tourisme") THEN tourisme_lines ELSE << >>)
    \o (IF HasSpecialite(config, "agriculture") THEN agriculture_lines ELSE << >>)
    \o common_lines

\* No adjustment pass is being stepped through.
NoVisit == [order |-> "ascending", rows_done |-> 0, pending |-> {}]

(***************************************************************************)
(* Actions.                                                                *)
(***************************************************************************)
\* main, the prompt: one input() call, then the try/except selection.
Prompt ==
    /\ pc = "prompt"
    /\ reads' = reads + 1
    /\ commune_selectionnee' = select_commune(stdin)
    /\ stdin' = None
    /\ pc' = "selected"
    /\ UNCHANGED <<analyzer, df, raw, returned, rng_stream, rng_pos, trend_calls,
                   handed,
                   printed, visit>>

\* analyzer = NouvelleCaledonieCommuneFinanceAnalyzer(commune_selectionnee)
Construct ==
    /\ pc = "selected"
    /\ analyzer' = __init__(commune_selectionnee)
    /\ pc' = "constructed"
    /\ UNCHANGED <<stdin, reads, commune_selectionnee, df, raw, returned,
                   rng_stream, rng_pos, trend_calls, handed,
                   printed, visit>>

\* generate_financial_data, its first lines: the dates and the Annee column.
GenDates ==
    /\ pc \in {"constructed", "configured"}
    /\ df' = WithColumn(EmptyTable, "Annee", annee_column(dates_of(analyzer)))
    /\ pc' = "simulating"
    /\ UNCHANGED <<stdin, reads, commune_selectionnee, analyzer, raw, returned,
                   rng_stream, rng_pos, trend_calls, handed,
                   printed, visit>>

\* generate_financial_data, the next data[...] = self._simulate_...(dates).
SimulateColumn ==
    /\ pc = "simulating"
    /\ Len(df.cols) <= Len(ColumnOrder)
    /\ df' = simulate_next(df, analyzer.config, dates_of(analyzer), rng_stream,
                           rng_pos)
    /\ rng_pos' = draws_after(df, dates_of(analyzer), rng_pos)
    /\ UNCHANGED <<pc, stdin, reads, commune_selectionnee, analyzer, raw, returned,
                   rng_stream, trend_calls, handed,
                   printed, visit>>

\* generate_financial_data: df = pd.DataFrame(data); self._add_municipal_trends(df)
AddMunicipalTrends ==
    /\ pc = "simulating"
    /\ Len(df.cols) = Len(ColumnOrder) + 1
    /\ raw' = df
    /\ df' = _add_municipal_trends(df)
    /\ trend_calls' = trend_calls + 1
    /\ pc' = "adjusted"
    /\ UNCHANGED <<stdin, reads, commune_selectionnee, analyzer, returned,
                   rng_stream, rng_pos, handed,
                   printed, visit>>

\* generate_financial_data: return df
Return ==
    /\ pc = "adjusted"
    /\ returned' = Append(returned, df)
    /\ pc' = "returned"
    /\ UNCHANGED <<stdin, reads, commune_selectionnee, analyzer, df, raw,
                   rng_stream, rng_pos, trend_calls, handed,
                   printed, visit>>

\* A consumer that reads the given columns of the table: a missing column is a
\* KeyError, which ends the program.
Consume(from, to, name, columns) ==
    /\ pc = from
    /\ IF columns \subseteq Columns(df)
       THEN /\ handed' = Append(handed, name)
            /\ pc' = to
       ELSE /\ handed' = handed
            /\ pc' = "KeyError"
    /\ UNCHANGED <<stdin, reads, commune_selectionnee, analyzer, df, raw, returned,
                   rng_stream, rng_pos, trend_calls,
                   printed, visit>>

\* financial_data.to_csv(output_file, index=False): every column, whatever it is.
ToCsv == Consume("returned", "exported", "to_csv", Columns(df))

\* print(financial_data[[...]].head())
Preview == Consume("exported", "previewed", "preview", preview_columns)

\* A chart step that runs the adjustment pass again on the table it is given.
CreateAnalysis_readjusting ==
    /\ pc = "previewed"
    /\ df' = _add_municipal_trends(df)
    /\ trend_calls' = trend_calls + 1
    /\ handed' = Append(handed, "chart")
    /\ pc' = "charted"
    /\ UNCHANGED <<stdin, reads, commune_selectionnee, analyzer, raw, returned,
                   rng_stream, rng_pos,
                   printed, visit>>

\* analyzer.create_financial_analysis(financial_data): the eight charts
CreateAnalysis == Consume("previewed", "charted", "chart", chart_columns)

\* ... and the report it ends with: self._generate_financial_insights(df)
Insights ==
    /\ pc = "charted"
    /\ IF _generate_financial_insights \subseteq Columns(df)
       THEN /\ handed' = Append(handed, "report")
            /\ printed' = recommendations(analyzer.config)
            /\ pc' = "reported"
       ELSE /\ handed' = handed
            /\ printed' = printed
            /\ pc' = "KeyError"
    /\ UNCHANGED <<stdin, reads, commune_selectionnee, analyzer, df, raw, returned,
                   rng_stream, rng_pos, trend_calls, visit>>

\* The closing prints of main.
Finish ==
    /\ pc = "reported"
    /\ pc' = "done"
    /\ UNCHANGED <<stdin, reads, commune_selectionnee, analyzer, df, raw, returned,
                   rng_stream, rng_pos, trend_calls, handed,
                   printed, visit>>

Init ==
    /\ pc = "prompt"
    /\ stdin \in Inputs
    /\ reads = 0
    /\ commune_selectionnee = None
    /\ analyzer = None
    /\ df = EmptyTable
    /\ raw = EmptyTable
    /\ returned = << >>
    /\ rng_stream \in 0..MaxStream
    /\ rng_pos = 0
    /\ trend_calls = 0
    /\ handed = << >>
    /\ printed = << >>
    /\ visit = NoVisit

Next ==
    \/ Prompt
    \/ Construct
    \/ GenDates
    \/ SimulateColumn
    \/ AddMunicipalTrends
    \/ Return
    \/ ToCsv
    \/ Preview
    \/ CreateAnalysis
    \/ Insights
    \/ Finish

\* One run of main.
Spec == Init /\ [][Next]_vars

(***************************************************************************)
(* The class used directly: an analyzer is built for any name, one         *)
(* specialty tag may be added to its configuration, generate_financial_data*)
(* is called up to MaxRuns times, and _add_municipal_trends may be applied *)
(* once more to the table a call returned.                                 *)
(***************************************************************************)
\* Names given to the constructor: the keys of the table, a locality of the
\* list that has no record, and a name that is no locality at all.
ApiNames == DOMAIN configs \cup {"Voh", "Atlantis"}

\* The specialty tags the sectoral generators test for.
SectorTags ==
    {"agriculture", "tourisme", "transport", "education", "environnement",
     "culture", "mine"}

\* analyzer.config["specialites"] + [tag]
with_specialite(config, tag) ==
    [config EXCEPT !.specialites = Append(@, tag)]

\* The configuration without the tag, everything else the same.
without_specialite(config, tag) ==
    [config EXCEPT !.specialites = SelectSeq(@, LAMBDA x : x # tag)]

\* analyzer.config = {**config, "specialites": specialites + [tag]}
SetSpecialite ==
    /\ pc = "constructed"
    /\ \E tag \in SectorTags :
          /\ ~HasSpecialite(analyzer.config, tag)
          /\ analyzer' = [analyzer EXCEPT !.config = with_specialite(@, tag)]
    /\ pc' = "configured"
    /\ UNCHANGED <<stdin, reads, commune_selectionnee, df, raw, returned,
                   rng_stream, rng_pos, trend_calls, handed,
                   printed, visit>>

\* A further analyzer.generate_financial_data() on the same analyzer.
GenerateAgain ==
    /\ pc = "returned"
    /\ Len(returned) < MaxRuns
    /\ pc' = "configured"
    /\ UNCHANGED <<stdin, reads, commune_selectionnee, analyzer, df, raw, returned,
                   rng_stream, rng_pos, trend_calls, handed,
                   printed, visit>>

\* analyzer._add_municipal_trends(df) on the table a call returned.
ReapplyTrends ==
    /\ pc = "returned"
    /\ df' = _add_municipal_trends(df)
    /\ trend_calls' = trend_calls + 1
    /\ pc' = "reapplied"
    /\ UNCHANGED <<stdin, reads, commune_selectionnee, analyzer, raw, returned,
                   rng_stream, rng_pos, handed,
                   printed, visit>>

InitApi ==
    /\ pc = "selected"
    /\ stdin = None
    /\ reads = 0
    /\ commune_selectionnee \in ApiNames
    /\ analyzer = None
    /\ df = EmptyTable
    /\ raw = EmptyTable
    /\ returned = << >>
    /\ rng_stream \in 0..MaxStream
    /\ rng_pos = 0
    /\ trend_calls = 0
    /\ handed = << >>
    /\ printed = << >>
    /\ visit = NoVisit

NextApi ==
    \/ Construct
    \/ SetSpecialite
    \/ GenDates
    \/ SimulateColumn
    \/ AddMunicipalTrends
    \/ Return
    \/ GenerateAgain
    \/ ReapplyTrends

SpecApi == InitApi /\ [][NextApi]_vars

(***************************************************************************)
(* The adjustment pass, one block at a time: the rows are visited in       *)
(* ascending or in descending order, and in each row the seven gated       *)
(* blocks run in any order.                                                *)
(***************************************************************************)
\* The seven gated blocks of the loop body.
Blocks ==
    {"initial", "crisis", "boom", "institutional", "covid", "environment",
     "relance"}

\* The block of that name, applied to row i.
apply_block(b, v, i, year) ==
    CASE b = "initial" -> block_initial(v, i, year)
      [] b = "crisis" -> block_crisis(v, i, year)
      [] b = "boom" -> block_boom(v, i, year)
      [] b = "institutional" -> block_institutional(v, i, year)
      [] b = "covid" -> block_covid(v, i, year)
      [] b = "environment" -> block_environment(v, i, year)
      [] b = "relance" -> block_relance(v, i, year)

\* The orders in which the rows are visited.
RowOrders == {"ascending", "descending"}

\* The row being visited.
current_row ==
    IF visit.order = "ascending" THEN visit.rows_done + 1
    ELSE NumRows(df) - visit.rows_done

\* The localities the pass is stepped through for: one with the mining and
\* agriculture tags, one with neither.
OrderNames == {"Koné", "Nouméa"}

\* self._add_municipal_trends(df) is entered.
BeginPass ==
    /\ pc = "simulating"
    /\ Len(df.cols) = Len(ColumnOrder) + 1
    /\ raw' = df
    /\ \E order \in RowOrders :
          visit' = [order |-> order, rows_done |-> 0, pending |-> Blocks]
    /\ pc' = "adjusting"
    /\ UNCHANGED <<stdin, reads, commune_selectionnee, analyzer, df, returned,
                   rng_stream, rng_pos, trend_calls, handed, printed>>

\* One of the blocks not yet run for the current row runs.
ApplyBlock ==
    /\ pc = "adjusting"
    /\ \E b \in visit.pending :
          /\ df' = [df EXCEPT !.val = apply_block(b, @, current_row,
                                                  @["Annee"][current_row])]
          /\ visit' = [visit EXCEPT !.pending = @ \ {b}]
    /\ UNCHANGED <<pc, stdin, reads, commune_selectionnee, analyzer, raw, returned,
                   rng_stream, rng_pos, trend_calls, handed, printed>>

\* The loop goes on to the next row.
NextRow ==
    /\ pc = "adjusting"
    /\ visit.pending = {}
    /\ visit.rows_done + 1 < NumRows(df)
    /\ visit' = [visit EXCEPT !.rows_done = @ + 1, !.pending = Blocks]
    /\ UNCHANGED <<pc, stdin, reads, commune_selectionnee, analyzer, df, raw,
                   returned, rng_stream, rng_pos, trend_calls, handed, printed>>

\* The loop ends after the last row.
EndPass ==
    /\ pc = "adjusting"
    /\ visit.pending = {}
    /\ visit.rows_done + 1 = NumRows(df)
    /\ visit' = [visit EXCEPT !.rows_done = @ + 1]
    /\ trend_calls' = trend_calls + 1
    /\ pc' = "adjusted"
    /\ UNCHANGED <<stdin, reads, commune_selectionnee, analyzer, df, raw, returned,
                   rng_stream, rng_pos, handed, printed>>

InitOrder ==
    /\ pc = "selected"
    /\ stdin = None
    /\ reads = 0
    /\ commune_selectionnee \in OrderNames
    /\ analyzer = None
    /\ df = EmptyTable
    /\ raw = EmptyTable
    /\ returned = << >>
    /\ rng_stream \in 0..MaxStream
    /\ rng_pos = 0
    /\ trend_calls = 0
    /\ handed = << >>
    /\ printed = << >>
    /\ visit = NoVisit

NextOrder ==
    \/ Construct
    \/ GenDates
    \/ SimulateColumn
    \/ BeginPass
    \/ ApplyBlock
    \/ NextRow
    \/ EndPass

SpecOrder == InitOrder /\ [][NextOrder]_vars

(***************************************************************************)
(* Properties.                                                             *)
(***************************************************************************)
\* The row of a table that holds the given year.
RowOf(t, year) == CHOOSE k \in 1..NumRows(t) : t.val["Annee"][k] = year

\* The value of a column in the row of the given year.
Cell(t, col, year) == t.val[col][RowOf(t, year)]

\* The nine localities that have a record of their own.
RecordedNames ==
    {"Nouméa", "Mont-Dore", "Dumbéa", "Païta", "Koné", "Bourail", "La Foa",
     "Poindimié", "Île des Pins"}

DefaultRecord ==
    Config(3000, 30, "rurale", <<"agriculture", "petit_commerce", "services_locaux">>)

\* C1: constructing the analyzer for a name that has a record in the table
\* yields exactly that record, and for every other name the default record
\* (3000, 30, rurale, agriculture/petit_commerce/services_locaux); the
\* constructor has no other outcome.
C1_ResolverExactOrDefault ==
    pc = "constructed" =>
        /\ analyzer.commune = commune_selectionnee
        /\ analyzer.config =
              IF commune_selectionnee \in RecordedNames
              THEN configs[commune_selectionnee]
              ELSE DefaultRecord

C1_Witness ==
    /\ pc = "constructed"
    /\ commune_selectionnee = "Atlantis"
    /\ analyzer.config.population_base = 3000

\* C2: from the moment the Annee column exists, and still after the adjustment
\* pass and the return, the table has end_year - start_year + 1 = 24 rows in
\* every column, Annee starts at start_year and grows by exactly 1 per row.
C2_OneRowPerYear ==
    pc \notin {"prompt", "selected", "constructed", "configured"} =>
        /\ NumRows(df) = analyzer.end_year - analyzer.start_year + 1
        /\ NumRows(df) = 24
        /\ df.val["Annee"][1] = analyzer.start_year
        /\ \A k \in 1..(NumRows(df) - 1) :
              df.val["Annee"][k + 1] = df.val["Annee"][k] + 1
        /\ \A c \in Columns(df) : Len(df.val[c]) = NumRows(df)

C2_Witness ==
    /\ pc = "done"
    /\ trend_calls = 1
    /\ NumRows(df) = 24
    /\ df.val["Annee"][24] = 2025

\* C3: with noise disabled, the tables returned by two calls of
\* generate_financial_data for the same configuration are equal, cell for cell.
C3_ZeroNoiseDeterministic ==
    (rng_stream = 0 /\ Len(returned) >= 2) =>
        \A a, b \in 1..Len(returned) : returned[a] = returned[b]

C3_Witness ==
    /\ rng_stream = 0
    /\ Len(returned) = 2
    /\ rng_pos > 0

RECURSIVE simulate_rest(_, _, _, _, _)
\* The table with all its remaining columns filled.
simulate_rest(t, config, dates, stream, pos) ==
    IF Len(t.cols) > Len(ColumnOrder) THEN t
    ELSE simulate_rest(simulate_next(t, config, dates, stream, pos), config, dates,
                       stream, draws_after(t, dates, pos))

\* The table generate_financial_data builds for a configuration, before the
\* adjustment pass.
GeneratedData(config, dates, stream, pos) ==
    simulate_rest(WithColumn(EmptyTable, "Annee", annee_column(dates)), config, dates,
                  stream, pos)

\* The configuration of the example: the record of Koné.
IsExampleConfig(config) ==
    /\ config.population_base = 8000
    /\ config.budget_base = 50
    /\ config.type = "rurale"
    /\ HasSpecialite(config, "mine")
    /\ HasSpecialite(config, "agriculture")

\* 50*0.04 * (1+0.038*22) * 2.1 * 1.8
ExampleValue == Mul4(QMul(QInt(50), Q(4, 100)), Linear(38, 22), Q(21, 10), Q(18, 10))

\* C4, as stated: for the Koné record with noise disabled the 2024
\* mining-investment value of the generated table is 50*0.04*(1+0.038*22)*2.1*1.8.
C4_AsStated ==
    (Len(returned) >= 1 /\ rng_stream = 0 /\ IsExampleConfig(analyzer.config)) =>
        Cell(returned[1], "Investissement_Mine", 2024) = ExampleValue

\* C4, amended: that value is what _simulate_mining_investment puts in the
\* table; the adjustment pass then multiplies the 2024 row by 1.18, so the table
\* generate_financial_data returns holds 50*0.04*(1+0.038*22)*2.1*1.8*1.18.
C4_ExampleValueTimesRelance ==
    (Len(returned) >= 1 /\ rng_stream = 0 /\ IsExampleConfig(analyzer.config)) =>
        /\ Cell(raw, "Investissement_Mine", 2024) = ExampleValue
        /\ Cell(returned[1], "Investissement_Mine", 2024)
              = QMul(ExampleValue, Q(118, 100))

C4_Witness ==
    /\ Len(returned) = 1
    /\ rng_stream = 0
    /\ analyzer.commune = "Koné"
    /\ IsExampleConfig(analyzer.config)

\* The series each specialty tag raises.
SectorColumn ==
    ("agriculture" :> "Investissement_Agriculture")
    @@ ("tourisme" :> "Investissement_Tourisme")
    @@ ("transport" :> "Investissement_Transport")
    @@ ("education" :> "Investissement_Education")
    @@ ("environnement" :> "Investissement_Environnement")
    @@ ("culture" :> "Investissement_Culture")
    @@ ("mine" :> "Investissement_Mine")

\* C5: with noise removed, for each of the seven sectoral series and every
\* year, the value for a configuration that carries the matching tag is strictly
\* larger than the value for the configuration that differs only in lacking the
\* tag, in the generator output and in the table after the adjustment pass.
C5_SpecialtyStrictlyLarger ==
    (rng_stream = 0 /\ pc \in {"adjusted", "returned"}) =>
        \A tag \in SectorTags :
            HasSpecialite(analyzer.config, tag) =>
                LET other == GeneratedData(without_specialite(analyzer.config, tag),
                                           dates_of(analyzer), 0, 0)
                    adjusted == _add_municipal_trends(other)
                    col == SectorColumn[tag]
                IN  \A k \in 1..NumRows(df) :
                        /\ QLess(other.val[col][k], raw.val[col][k])
                        /\ QLess(adjusted.val[col][k], df.val[col][k])

C5_Witness ==
    /\ rng_stream = 0
    /\ pc = "returned"
    /\ HasSpecialite(analyzer.config, "transport")
    /\ HasSpecialite(analyzer.config, "tourisme")

\* C6: a second application of the adjustment pass changes the table, and
\* leaves in every cell the value before the first application times the square
\* of the factor the first application multiplied it by.
C6_SecondPassSquares ==
    pc = "reapplied" =>
        LET once == returned[Len(returned)]
        IN  /\ df # once
            /\ df.cols = once.cols
            /\ df.val["Annee"] = once.val["Annee"]
            /\ \A j \in 1..Len(ColumnOrder) :
                  \A k \in 1..NumRows(df) :
                      LET c == ColumnOrder[j]
                          m == QDiv(once.val[c][k], raw.val[c][k])
                      IN  df.val[c][k] = QMul(raw.val[c][k], QMul(m, m))

C6_Witness ==
    /\ pc = "reapplied"
    /\ rng_stream = 1
    /\ Cell(returned[Len(returned)], "Investissement_Mine", 2024)
          = QMul(Cell(raw, "Investissement_Mine", 2024), Q(118, 100))
    /\ Cell(df, "Investissement_Mine", 2024)
          = QMul(Cell(raw, "Investissement_Mine", 2024), QMul(Q(118, 100), Q(118, 100)))

\* The selection the prompt is said to make for a typed line.
ClaimedSelection(line) ==
    LET n == int(line)
    IN  IF n.ok /\ 1 <= n.val /\ n.val <= 33 THEN communes[n.val] ELSE "Nouméa"

\* C7: the prompt is read exactly once and always ends with a selection, never
\* a second read or an exit: the n-th locality of the list when the line parses
\* as an integer n with 1 <= n <= 33, Nouméa for every other line.
C7_PromptReadOnceWithFallback ==
    /\ [](reads <= 1 /\ (pc # "prompt" => reads = 1))
    /\ [][pc = "prompt" =>
            /\ pc' = "selected"
            /\ reads' = 1
            /\ commune_selectionnee' = ClaimedSelection(stdin)]_vars

C7_Witness ==
    /\ pc = "selected"
    /\ reads = 1
    /\ commune_selectionnee = "Koné"

\* The consumers of main, in the order main hands the table to them.
ConsumerOrder == <<"to_csv", "preview", "chart", "report">>

IsPrefix(a, b) == Len(a) <= Len(b) /\ a = SubSeq(b, 1, Len(a))

\* C8: in a run of main the adjustment pass runs once, after all 23 value
\* columns are generated and before the return; the returned table goes to the
\* exporter, the preview, the charts and the report in that order; and no cell
\* changes once generate_financial_data has returned.
C8_TableLifecycle ==
    /\ [](/\ trend_calls <= 1
          /\ (trend_calls = 1 => Len(df.cols) = Len(ColumnOrder) + 1)
          /\ (Len(returned) >= 1 => trend_calls = 1)
          /\ Len(returned) <= 1
          /\ IsPrefix(handed, ConsumerOrder)
          /\ (Len(handed) >= 1 => Len(returned) = 1 /\ df = returned[1])
          /\ (pc = "done" => handed = ConsumerOrder))
    /\ [][Len(returned) >= 1 => df' = df]_vars

C8_Witness ==
    /\ pc = "done"
    /\ handed = ConsumerOrder
    /\ trend_calls = 1
    /\ df = returned[1]
    /\ df # raw

\* The column names of the table, in order.
TableColumns ==
    <<"Annee", "Population", "Menages", "Recettes_Totales", "Impots_Locaux",
      "Dotations_Etat", "Dotations_Territoriales", "Autres_Recettes",
      "Depenses_Totales", "Fonctionnement", "Investissement", "Charge_Dette",
      "Personnel", "Epargne_Brute", "Dette_Totale", "Taux_Endettement",
      "Taux_Fiscalite", "Investissement_Agriculture", "Investissement_Tourisme",
      "Investissement_Transport", "Investissement_Education",
      "Investissement_Environnement", "Investissement_Culture",
      "Investissement_Mine">>

\* C9: no consumer ever reads a column the table lacks (no KeyError): the
\* columns read by the preview, by each of the eight charts and by the report
\* are columns of the returned table, whose column names and their order are the
\* same fixed list for every locality and every run.
C9_ConsumersReadGeneratedColumns ==
    /\ pc # "KeyError"
    /\ Len(returned) >= 1 =>
          /\ df.cols = TableColumns
          /\ \A read \in {preview_columns, _plot_revenue_expenses,
                          _plot_revenue_structure, _plot_expenses_structure,
                          _plot_investments, _plot_debt,
                          _plot_performance_indicators, _plot_demography,
                          _plot_sectorial_investments,
                          _generate_financial_insights} :
                read \subseteq Columns(df)

C9_Witness ==
    /\ pc = "done"
    /\ handed = ConsumerOrder
    /\ analyzer.commune = "Ouvéa"
    /\ df.cols = TableColumns

\* C10: in the returned table the rows of 2020 and of 2021 each hold the
\* generator's other-revenue value times 0.75 and its tourism-investment value
\* times 0.88.
C10_PandemicDipBothYears ==
    pc = "returned" =>
        \A year \in {2020, 2021} :
            /\ Cell(df, "Autres_Recettes", year)
                  = QMul(Cell(raw, "Autres_Recettes", year), Q(75, 100))
            /\ Cell(df, "Investissement_Tourisme", year)
                  = QMul(Cell(raw, "Investissement_Tourisme", year), Q(88, 100))

(***************************************************************************)
(* C11: the recommendation list of the report.                             *)
(***************************************************************************)
\* The three tags the report tests for.
RecommendationTags == {"mine", "tourisme", "agriculture"}

\* The categories of the configuration table.
Types == {configs[name].type : name \in DOMAIN configs}

\* C11 as stated: the lines the report printed are determined by the category
\* of the locality, so every record of that category gets the list this run
\* printed.
C11_ListSelectedByType ==
    pc = "reported" =>
        \A name \in DOMAIN configs :
            configs[name].type = analyzer.config.type
                => recommendations(configs[name]) = printed

\* C11, amended: the lines the report printed are the two lines of each of the
\* tags mine, tourisme and agriculture that is among the specialties, in that
\* order, then the four common lines; every record with the same three
\* memberships gets the same list, and no change of category changes it.
C11_ListSelectedBySpecialties ==
    pc = "reported" =>
        /\ printed =
              (IF \E j \in 1..Len(analyzer.config.specialites) :
                      analyzer.config.specialites[j] = "mine"
               THEN mine_lines ELSE << >>)
              \o (IF \E j \in 1..Len(analyzer.config.specialites) :
                         analyzer.config.specialites[j] = "tourisme"
                  THEN tourisme_lines ELSE << >>)
              \o (IF \E j \in 1..Len(analyzer.config.specialites) :
                         analyzer.config.specialites[j] = "agriculture"
                  THEN agriculture_lines ELSE << >>)
              \o common_lines
        /\ \A name \in DOMAIN configs :
              (\A tag \in RecommendationTags :
                  HasSpecialite(configs[name], tag)
                      <=> HasSpecialite(analyzer.config, tag))
                  => recommendations(configs[name]) = printed
        /\ \A type \in Types :
              recommendations([analyzer.config EXCEPT !.type = type]) = printed

\* The report of Koné is printed: a rural locality that gets the mining
\* lines, which the rural locality Bourail does not.
C11_Witness ==
    /\ pc = "reported"
    /\ analyzer.commune = "Koné"
    /\ printed = mine_lines \o agriculture_lines \o common_lines
    /\ configs["Bourail"].type = analyzer.config.type
    /\ recommendations(configs["Bourail"]) # printed

(***************************************************************************)
(* C12: the gates that stack and the gates that exclude each other.        *)
(***************************************************************************)
\* The pass multiplied the cell of column col in row k by exactly m.
MultipliedBy(col, k, m) == df.val[col][k] = QMul(raw.val[col][k], m)

\* C12: in the table the pass produced, every row of 2010-2014 has mining
\* investment x1.5 and territorial grants x1.3 (the mining boom) and state
\* grants x(1 + 0.015*(year-2010)) (institutional growth); every row of
\* 2008-2009 has the crisis factors; and no row has both the crisis factors
\* and the boom factors.
C12_BoomAndGrowthStackCrisisExcludes ==
    pc \in {"adjusted", "returned"} =>
        \A k \in 1..NumRows(df) :
            LET year == df.val["Annee"][k]
                crisis == /\ MultipliedBy("Recettes_Totales", k, Q(94, 100))
                          /\ MultipliedBy("Investissement", k, Q(85, 100))
                          /\ MultipliedBy("Autres_Recettes", k, Q(88, 100))
                boom == /\ MultipliedBy("Investissement_Mine", k, Q(15, 10))
                        /\ MultipliedBy("Dotations_Territoriales", k, Q(13, 10))
            IN  /\ (2010 <= year /\ year <= 2014) =>
                       /\ boom
                       /\ MultipliedBy("Dotations_Etat", k,
                                       Q(1000 + 15 * (year - 2010), 1000))
                /\ (2008 <= year /\ year <= 2009) => crisis
                /\ ~(crisis /\ boom)

\* A returned table whose 2012 row has the boom factors and the growth factor
\* 1.03, and whose 2008 row has the crisis factors and not the boom factors.
C12_Witness ==
    /\ pc = "returned"
    /\ Cell(df, "Investissement_Mine", 2012)
           = QMul(Cell(raw, "Investissement_Mine", 2012), Q(3, 2))
    /\ Cell(df, "Dotations_Territoriales", 2012)
           = QMul(Cell(raw, "Dotations_Territoriales", 2012), Q(13, 10))
    /\ Cell(df, "Dotations_Etat", 2012)
           = QMul(Cell(raw, "Dotations_Etat", 2012), Q(103, 100))
    /\ Cell(df, "Dotations_Etat", 2012) # Cell(raw, "Dotations_Etat", 2012)
    /\ Cell(df, "Recettes_Totales", 2008)
           = QMul(Cell(raw, "Recettes_Totales", 2008), Q(94, 100))
    /\ Cell(df, "Investissement_Mine", 2008) = Cell(raw, "Investissement_Mine", 2008)

(***************************************************************************)
(* C13: the order of the blocks and of the rows.                           *)
(***************************************************************************)
\* C13: whatever the order in which the seven blocks ran in each row, and
\* whether the rows are visited in ascending or descending order: each time
\* the blocks of a row have all run, and when the pass has ended, every row
\* visited so far holds exactly the values the pass gives it in the order of
\* the source, and every row not yet visited holds the generator's values.
C13_OrderIndependent ==
    (\/ pc = "adjusting" /\ visit.pending = {}
     \/ pc = "adjusted" /\ visit.rows_done = NumRows(df)) =>
        LET in_source_order == _add_municipal_trends(raw)
            rows_run == IF pc = "adjusting" THEN visit.rows_done + 1
                        ELSE visit.rows_done
            visited(k) == IF visit.order = "ascending"
                          THEN k <= rows_run
                          ELSE k > NumRows(df) - rows_run
        IN  /\ Columns(df) = Columns(raw)
            /\ NumRows(df) = NumRows(raw)
            /\ \A k \in 1..NumRows(df) : \A col \in Columns(df) :
                  df.val[col][k] = IF visited(k) THEN in_source_order.val[col][k]
                                   ELSE raw.val[col][k]

\* A pass over a noisy table that visited the rows in descending order has
\* ended, and it changed the table.
C13_Witness ==
    /\ pc = "adjusted"
    /\ visit.order = "descending"
    /\ visit.rows_done = NumRows(df)
    /\ rng_stream > 0
    /\ df # raw
    /\ Cell(df, "Investissement_Mine", 2012)
           = QMul(Cell(raw, "Investissement_Mine", 2012), Q(3, 2))

(***************************************************************************)
(* C14: the six threshold series.                                          *)
(***************************************************************************)
\* The six series as claimed: column, share of budget_base (or the constant
\* base when the series does not scale with the budget), threshold year, and
\* slope k in thousandths.
ThresholdSeries ==
    {[col |-> "Dotations_Etat", share |-> Q(25, 100), scaled |-> TRUE,
      threshold |-> 2010, k |-> 10],
     [col |-> "Dotations_Territoriales", share |-> Q(15, 100), scaled |-> TRUE,
      threshold |-> 2000, k |-> 12],
     [col |-> "Charge_Dette", share |-> Q(5, 100), scaled |-> TRUE,
      threshold |-> 2005, k |-> 9],
     [col |-> "Epargne_Brute", share |-> Q(5, 100), scaled |-> TRUE,
      threshold |-> 2010, k |-> 10],
     [col |-> "Taux_Endettement", share |-> Q(60, 100), scaled |-> FALSE,
      threshold |-> 2010, k |-> -12],
     [col |-> "Taux_Fiscalite", share |-> Q(95, 100), scaled |-> FALSE,
      threshold |-> 2010, k |-> 4]}

\* The base of a threshold series for a configuration.
SeriesBase(series, config) ==
    IF series.scaled THEN QMul(QInt(config.budget_base), series.share)
    ELSE series.share

\* C14: with noise removed, each of the six series as generated is its base in
\* every year before its threshold and base * (1 + k*(year - threshold)) in
\* every year from the threshold on: a function of the year alone.
C14_ThresholdSeries ==
    (pc \in {"adjusted", "returned"} /\ rng_stream = 0) =>
        \A series \in ThresholdSeries : \A k \in 1..NumRows(raw) :
            LET year == raw.val["Annee"][k]
            IN  raw.val[series.col][k] =
                    IF year < series.threshold
                    THEN SeriesBase(series, analyzer.config)
                    ELSE QMul(SeriesBase(series, analyzer.config),
                              Q(1000 + series.k * (year - series.threshold), 1000))

\* A noiseless table of Koné (budget_base 50): the debt charge is 2.5 in 2004,
\* before its threshold, and 2.5 * 1.18 in 2025; the debt ratio has fallen to
\* 0.60 * 0.82 in 2025.
C14_Witness ==
    /\ pc = "returned"
    /\ rng_stream = 0
    /\ analyzer.commune = "Koné"
    /\ Cell(raw, "Charge_Dette", 2004) = Q(5, 2)
    /\ Cell(raw, "Charge_Dette", 2025) = QMul(Q(5, 2), Q(118, 100))
    /\ Cell(raw, "Taux_Endettement", 2025) = QMul(Q(60, 100), Q(82, 100))
    /\ Cell(raw, "Dotations_Etat", 2009) = Cell(raw, "Dotations_Etat", 2002)

(***************************************************************************)
(* C15: signs of the cells.                                                *)
(***************************************************************************)
\* C15: with noise removed, every cell of the table generate_financial_data
\* returned is strictly positive, in every row 2002-2025 and for every
\* configuration; the table has a row for each of these years.
C15_NoiselessCellsPositive ==
    (pc = "returned" /\ rng_stream = 0) =>
        /\ \A year \in start_year..end_year :
              \E k \in 1..NumRows(df) : df.val["Annee"][k] = year
        /\ \A k \in 1..NumRows(df) :
              /\ df.val["Annee"][k] > 0
              /\ \A j \in 1..Len(ColumnOrder) : df.val[ColumnOrder[j]][k].s = 1

\* A noiseless table of the default configuration is returned; its only
\* falling series, the debt ratio, is at its lowest in 2025, 0.60 * 0.82.
C15_Witness ==
    /\ pc = "returned"
    /\ rng_stream = 0
    /\ analyzer.config = configs["default"]
    /\ Cell(df, "Taux_Endettement", 2025) = QMul(Q(60, 100), Q(82, 100))
    /\ QLess(Cell(df, "Taux_Endettement", 2025), Cell(df, "Taux_Endettement", 2024))

(***************************************************************************)
(* C16: growth rates by category.                                          *)
(***************************************************************************)
\* The rate pairs as claimed, in thousandths: population, total revenue.
ClaimedRates(type) ==
    CASE type = "urbaine" -> <<18, 38>>
      [] type = "periurbaine" -> <<22, 42>>
      [] type = "insulaire" -> <<15, 35>>
      [] type = "rurale" -> <<12, 32>>
      [] OTHER -> <<12, 32>>

\* C16: in every generated table the population of row i is
\* population_base * (1 + rate*i) and, with noise removed, the total revenue
\* as generated is budget_base * (1 + rate*i), with the rates the category
\* selects: urban 0.018/0.038, peri-urban 0.022/0.042, insular 0.015/0.035,
\* rural and every other category 0.012/0.032; the five categories of the
\* configuration table give four distinct rate pairs.
C16_RatesByCategory ==
    /\ pc \in {"adjusted", "returned"} =>
          \A k \in 1..NumRows(raw) :
              LET rates == ClaimedRates(analyzer.config.type)
              IN  /\ raw.val["Population"][k] =
                         QMul(QInt(analyzer.config.population_base),
                              Q(1000 + rates[1] * (k - 1), 1000))
                  /\ rng_stream = 0 =>
                         raw.val["Recettes_Totales"][k] =
                             QMul(QInt(analyzer.config.budget_base),
                                  Q(1000 + rates[2] * (k - 1), 1000))
    /\ Cardinality(Types) = 5
    /\ Cardinality({<<population_growth_rate(type), revenue_growth_rate(type)>> :
                       type \in Types}) = 4

\* A noiseless table of Poindimié, the coastal locality (population_base 5000,
\* budget_base 42): in 2025 its population is 5000 * 1.276 and its total
\* revenue as generated 42 * 1.736, the rural rates.
C16_Witness ==
    /\ pc = "returned"
    /\ rng_stream = 0
    /\ analyzer.commune = "Poindimié"
    /\ analyzer.config.type = "cotiere"
    /\ Cell(raw, "Population", 2025) = QMul(QInt(5000), Q(1276, 1000))
    /\ Cell(raw, "Recettes_Totales", 2025) = QMul(QInt(42), Q(1736, 1000))

(***************************************************************************)
(* C17: the frame of the adjustment pass.                                  *)
(***************************************************************************)
\* The nine adjusted columns as claimed, each with the table years of the
\* ranges that gate it.
Gates ==
    ("Investissement_Agriculture" :> 2002..2005)
    @@ ("Investissement_Tourisme" :> (2002..2005) \cup (2020..2021) \cup (2022..2025))
    @@ ("Investissement_Mine" :> (2010..2014) \cup (2022..2025))
    @@ ("Investissement_Environnement" :> 2010..2025)
    @@ ("Recettes_Totales" :> 2008..2009)
    @@ ("Investissement" :> (2008..2009) \cup (2022..2025))
    @@ ("Autres_Recettes" :> (2008..2009) \cup (2020..2021))
    @@ ("Dotations_Territoriales" :> 2010..2014)
    @@ ("Dotations_Etat" :> 2010..2025)

\* C17: the table after the pass has the columns and the rows of the table
\* before it, in the same order, and the same Annee column; a cell differs
\* from the cell before the pass only if its column is one of the nine
\* adjusted columns and the year of its row is in a range gating that column;
\* so the other 14 columns are unchanged in every row, and the rows of 2006
\* and 2007 are unchanged in every column.
C17_PassFrame ==
    pc \in {"adjusted", "returned"} =>
        /\ df.cols = raw.cols
        /\ NumRows(df) = NumRows(raw)
        /\ df.val["Annee"] = raw.val["Annee"]
        /\ Cardinality(DOMAIN Gates) = 9
        /\ DOMAIN Gates \subseteq Columns(raw)
        /\ Cardinality(Columns(raw) \ (DOMAIN Gates \cup {"Annee"})) = 14
        /\ \A col \in Columns(raw) : \A k \in 1..NumRows(raw) :
              df.val[col][k] # raw.val[col][k] =>
                  /\ col \in DOMAIN Gates
                  /\ raw.val["Annee"][k] \in Gates[col]
        /\ \A col \in Columns(raw) : \A year \in {2006, 2007} :
              Cell(df, col, year) = Cell(raw, col, year)

\* A returned table that the pass changed in 2005 and in 2008 and left as
\* generated in 2006 and 2007.
C17_Witness ==
    /\ pc = "returned"
    /\ Cell(df, "Investissement_Agriculture", 2005)
           # Cell(raw, "Investissement_Agriculture", 2005)
    /\ Cell(df, "Recettes_Totales", 2008) # Cell(raw, "Recettes_Totales", 2008)
    /\ \A col \in Columns(raw) : Cell(df, col, 2006) = Cell(raw, col, 2006)
    /\ Cell(df, "Depenses_Totales", 2008) = Cell(raw, "Depenses_Totales", 2008)

(***************************************************************************)
(* C18: the localities of the prompt and the records of the table.         *)
(***************************************************************************)
\* The localities the prompt offers.
Offered == {communes[j] : j \in 1..Len(communes)}

\* C18: the prompt offers 33 distinct localities; constructing an analyzer for
\* any of them yields its own record for exactly the nine recorded names and
\* the default record for the other 24; every key of the table other than
\* "default" is offered; and in a run of main the locality selected is one
\* of the 33 and the analyzer built for it holds that configuration.
C18_PromptLocalitiesResolve ==
    /\ Len(communes) = 33
    /\ Cardinality(Offered) = 33
    /\ Offered \cap DOMAIN configs = RecordedNames
    /\ Cardinality(RecordedNames) = 9
    /\ Cardinality(Offered \ RecordedNames) = 24
    /\ DOMAIN configs \ {"default"} \subseteq Offered
    /\ \A j \in 1..Len(communes) :
          __init__(communes[j]).config =
              IF communes[j] \in RecordedNames THEN configs[communes[j]]
              ELSE configs["default"]
    /\ pc = "selected" => commune_selectionnee \in Offered
    /\ pc \in {"constructed", "simulating", "adjusted", "returned"} =>
          /\ analyzer.commune \in Offered
          /\ analyzer.config =
                IF analyzer.commune \in RecordedNames
                THEN configs[analyzer.commune]
                ELSE configs["default"]

\* Choice 23 was typed: the analyzer of Poindimié holds its own record; the
\* record differs from the default one.
C18_Witness ==
    /\ pc = "constructed"
    /\ analyzer.commune = "Poindimié"
    /\ analyzer.commune = communes[23]
    /\ analyzer.config = configs["Poindimié"]
    /\ analyzer.config # configs["default"]

(***************************************************************************)
(* C19: population and households.                                         *)
(***************************************************************************)
\* In table t, for the configuration config: Population and Menages are
\* population_base * (1 + rate*(year - start_year)) and
\* population_base / 2.7 * (1 + 0.015*(year - start_year)), and both grow
\* strictly from each row to the next.
DemographyAsClaimed(t, config) ==
    /\ \A k \in 1..NumRows(t) :
          LET year == t.val["Annee"][k]
          IN  /\ t.val["Population"][k] =
                     QMul(QInt(config.population_base),
                          Q(1000 + ClaimedRates(config.type)[1] * (year - start_year),
                            1000))
              /\ t.val["Menages"][k] =
                     QMul(QDiv(QInt(config.population_base), Q(27, 10)),
                          Q(1000 + 15 * (year - start_year), 1000))
    /\ \A k \in 1..(NumRows(t) - 1) :
          /\ QLess(t.val["Population"][k], t.val["Population"][k + 1])
          /\ QLess(t.val["Menages"][k], t.val["Menages"][k + 1])

\* C19: whatever the noise stream and however many draws were made before,
\* the Population and Menages columns of the table as generated, after the
\* pass, after a second pass, and of every table returned are the noise-free
\* closed forms, strictly increasing, hence the same in every run
\* of the same configuration.
C19_DemographyNoiseFree ==
    /\ pc \in {"adjusted", "reapplied"} =>
          /\ DemographyAsClaimed(raw, analyzer.config)
          /\ DemographyAsClaimed(df, analyzer.config)
    /\ pc = "returned" =>
          \A j \in 1..Len(returned) :
              /\ DemographyAsClaimed(returned[j], analyzer.config)
              /\ returned[j].val["Population"] = returned[1].val["Population"]
              /\ returned[j].val["Menages"] = returned[1].val["Menages"]

\* Two runs with noise on returned tables that differ in their noisy columns
\* and agree on Population and Menages.
C19_Witness ==
    /\ pc = "returned"
    /\ rng_stream > 0
    /\ Len(returned) = 2
    /\ returned[1].val["Recettes_Totales"] # returned[2].val["Recettes_Totales"]
    /\ returned[1].val["Population"] = returned[2].val["Population"]
    /\ returned[1].val["Menages"] = returned[2].val["Menages"]
    /\ Cell(returned[2], "Menages", 2025)
           = QMul(QDiv(QInt(analyzer.config.population_base), Q(27, 10)),
                  Q(1345, 1000))

(***************************************************************************)
(* C20: specialty tags are matched exactly.                                *)
(***************************************************************************)
\* The specialties of a configuration, as a set.
Specialites(config) == {config.specialites[j] : j \in 1..Len(config.specialites)}

\* C20: no record of the table, the default one included, has the tag
\* transport or environnement; so in every run of main, with noise removed,
\* the transport and environment series as generated carry the multipliers
\* 0.9 and 0.8, and the culture series carries 1.6 exactly when "culture"
\* itself is among the specialties and 0.7 otherwise: 0.7 for Poindimié,
\* whose list holds "culture_kanak".
C20_ExactTagMembership ==
    /\ \A name \in DOMAIN configs :
          Specialites(configs[name]) \cap {"transport", "environnement"} = {}
    /\ "culture_kanak" \in Specialites(configs["Poindimié"])
    /\ "culture" \notin Specialites(configs["Poindimié"])
    /\ (pc \in {"adjusted", "returned"} /\ rng_stream = 0) =>
          \A k \in 1..NumRows(raw) :
              LET year == raw.val["Annee"][k]
                  budget == QInt(analyzer.config.budget_base)
                  culture == IF "culture" \in Specialites(analyzer.config)
                             THEN Q(16, 10) ELSE Q(7, 10)
              IN  /\ raw.val["Investissement_Transport"][k] =
                         Mul5(budget, Q(4, 100), Q(1000 + 27 * (k - 1), 1000),
                              IF year \in {2006, 2012, 2018, 2023} THEN Q(18, 10)
                              ELSE One,
                              Q(9, 10))
                  /\ raw.val["Investissement_Environnement"][k] =
                         Mul5(budget, Q(4, 100), Q(1000 + 32 * (k - 1), 1000),
                              IF year \in {2009, 2015, 2021} THEN Q(2, 1) ELSE One,
                              Q(8, 10))
                  /\ raw.val["Investissement_Culture"][k] =
                         Mul5(budget, Q(3, 100), Q(1000 + 26 * (k - 1), 1000),
                              IF year \in {2010, 2016, 2022} THEN Q(18, 10) ELSE One,
                              culture)
                  /\ analyzer.commune = "Poindimié" => culture = Q(7, 10)

\* A noiseless table of Poindimié (budget_base 42): its culture investment of
\* 2003 is 42 * 0.03 * 1.026 * 0.7, its transport investment 42 * 0.04 * 1.027
\* * 0.9.
C20_Witness ==
    /\ pc = "returned"
    /\ rng_stream = 0
    /\ analyzer.commune = "Poindimié"
    /\ Cell(raw, "Investissement_Culture", 2003)
           = Mul4(QInt(42), Q(3, 100), Q(1026, 1000), Q(7, 10))
    /\ Cell(raw, "Investissement_Transport", 2003)
           = Mul4(QInt(42), Q(4, 100), Q(1027, 1000), Q(9, 10))

====
